---- MODULE Spec2Model ----
(***************************************************************************)
(* The interactive editing kernel of the Infographic runtime: the command  *)
(* manager with its undo/redo history, the selection manager, the event    *)
(* emitter that connects them, and the selection-driven edit bar.          *)
(*                                                                         *)
(* CommandManager, StateManager and SelectionManager are not among the     *)
(* source files; their definitions here follow spec.md (sections 3, 4.2,   *)
(* 4.3, 4.4, 5 and 9).  The edit bar and the public event bridge are       *)
(* translated from the source.                                             *)
(***************************************************************************)
EXTENDS Integers, Sequences, FiniteSets, TLC

VARIABLES
    \* ---- StateManager / CommandManager (spec.md 4.2, 4.3)
    doc,          \* the document state tree: path -> value, Absent when missing
    undoStack,    \* sequence of HistoryEntry, most recent last
    redoStack,    \* sequence of HistoryEntry, most recent last
    issued,       \* number of execute/executeBatch/undo/redo calls made so far
    pending,      \* the calls queued, in arrival order
    inflight,     \* the operations that have started and not yet settled
    started,      \* number of calls that have started, and the id of the latest
    last,         \* the call that settled most recently, until the next one starts
    scen,         \* position in an "execute n batches, undo n, redo n" run
    \* ---- Infographic, its emitter and the SelectionManager of its editor
    igOptions,    \* this.options: editable and the callback options
    editor,       \* this.editor: the number of the render that made it, 0 if none
    renders,      \* number of performRender() runs so far
    subs,         \* the emitter's listeners per event, in registration order
    selection,    \* the SelectionManager's current selection
    lastEmit,     \* what the latest setSelection() published and who was called
    life,         \* the initial options, whether the parsed options are
                  \* complete, the calls made so far and the latest one, and
                  \* how often each Editor's destroy() has been called
    \* ---- EditBar
    barOptions,   \* this.options: filter, render, items, includeDefaults
    container,    \* whether this.container exists
    visibility,   \* container.style.visibility
    barSelection, \* this.selection
    content,      \* the container's children and the selection they were built for
    placed,       \* the selection whose bounds left/top were last computed from
    invoked,      \* the renderer and item factories the last handler called
    attrs,        \* the attributes of each element
    context,      \* the context built for a selection and the type it was given
    bounds,       \* getBoundingClientRect() of each element
    view,         \* the viewport, the scroll offset, the container's offset
                  \* parent and the container's own measured box
    position,     \* container.style.left and top
    lastEvent,    \* the handler that ran last
    steps,        \* what the last handler did to the container, in order
    mounted,      \* the content elements whose React root is mounted
    listening,    \* the events the bar's handlers are registered for
    destroyed,    \* destroy() has been called
    inDocument,   \* the container is a child of its parent element
    created       \* number of containers this EditBar has created

cmdVars == <<doc, undoStack, redoStack, issued, pending, inflight, started,
             last, scen>>

igVars == <<igOptions, editor, renders, subs, selection, lastEmit, life>>

logVars == <<steps, mounted>>

lifeVars == <<listening, destroyed, inDocument, created>>

barVars == <<barOptions, container, visibility, barSelection, content, placed,
             invoked, attrs, context, bounds, view, position, lastEvent,
             logVars, lifeVars>>

vars == <<cmdVars, igVars, barVars>>

(***************************************************************************)
(* Bounds                                                                  *)
(***************************************************************************)
MaxCalls == 3
MaxBatch == 3
MaxPending == 2
MaxRound == 2
MaxSel == 2
MaxRenders == 1
MaxUser == 1
MaxLifeCalls == 3
MaxHistory == 1

(***************************************************************************)
(* StateManager (spec.md 4.2)                                              *)
(***************************************************************************)
Absent == 0
AddVals == {1}
UpdateVals == {2}
Paths == {"a", "a.b"}
Root == "$"

Parent(p) == IF p = "a.b" THEN "a" ELSE Root

InSubtree(q, p) == q = p \/ Parent(q) = p

Exists(d, p) == p = Root \/ d[p] # Absent

NoPrev == [q \in Paths |-> Absent]

\* the part of d at and below p, as a change record carries it
SubtreeOf(d, p) == [q \in Paths |-> IF InSubtree(q, p) THEN d[q] ELSE Absent]

\* what a command asks of the state manager
Requests ==
    [op : {"add"}, path : Paths, value : AddVals]
        \cup [op : {"update"}, path : Paths, value : UpdateVals]
        \cup [op : {"remove"}, path : Paths, value : {Absent}]

\* applyChange(record): the new document and the completed change record,
\* or ok = FALSE (PathError) with the document untouched
applyChange(d, req) ==
    CASE req.op = "add" ->
            IF Exists(d, Parent(req.path)) /\ ~Exists(d, req.path)
            THEN [ok |-> TRUE,
                  doc |-> [d EXCEPT ![req.path] = req.value],
                  rec |-> [op |-> "add", path |-> req.path,
                           value |-> req.value, prev |-> NoPrev]]
            ELSE [ok |-> FALSE, doc |-> d, rec |-> <<>>]
      [] req.op = "remove" ->
            IF Exists(d, req.path)
            THEN [ok |-> TRUE,
                  doc |-> [q \in Paths |->
                             IF InSubtree(q, req.path) THEN Absent ELSE d[q]],
                  rec |-> [op |-> "remove", path |-> req.path,
                           value |-> Absent,
                           prev |-> SubtreeOf(d, req.path)]]
            ELSE [ok |-> FALSE, doc |-> d, rec |-> <<>>]
      [] OTHER ->
            IF Exists(d, req.path)
            THEN [ok |-> TRUE,
                  doc |-> [d EXCEPT ![req.path] = req.value],
                  rec |-> [op |-> "update", path |-> req.path,
                           value |-> req.value,
                           prev |-> [NoPrev EXCEPT ![req.path] = d[req.path]]]]
            ELSE [ok |-> FALSE, doc |-> d, rec |-> <<>>]

\* the inverse of one change record, applied: delete for add, re-insert for
\* remove, replace-with-previousValue for update (spec.md 9)
applyInverse(d, rec) ==
    CASE rec.op = "add" ->
            IF Exists(d, rec.path)
            THEN [ok |-> TRUE,
                  doc |-> [q \in Paths |->
                             IF InSubtree(q, rec.path) THEN Absent ELSE d[q]]]
            ELSE [ok |-> FALSE, doc |-> d]
      [] rec.op = "remove" ->
            IF Exists(d, Parent(rec.path)) /\ ~Exists(d, rec.path)
            THEN [ok |-> TRUE,
                  doc |-> [q \in Paths |->
                             IF InSubtree(q, rec.path) THEN rec.prev[q] ELSE d[q]]]
            ELSE [ok |-> FALSE, doc |-> d]
      [] OTHER ->
            IF Exists(d, rec.path)
            THEN [ok |-> TRUE,
                  doc |-> [d EXCEPT ![rec.path] = rec.prev[rec.path]]]
            ELSE [ok |-> FALSE, doc |-> d]

\* the forward operation of a recorded change, applied again (redo)
applyForward(d, rec) ==
    LET r == applyChange(d, [op |-> rec.op, path |-> rec.path, value |-> rec.value])
    IN  [ok |-> r.ok, doc |-> r.doc]

RECURSIVE applyInverseAll(_, _)
\* the aggregated inverse of a history entry: the inverses of its records,
\* last record first
applyInverseAll(d, entry) ==
    IF entry = <<>> THEN [ok |-> TRUE, doc |-> d]
    ELSE LET r == applyInverse(d, entry[Len(entry)])
         IN  IF r.ok THEN applyInverseAll(r.doc, SubSeq(entry, 1, Len(entry) - 1))
             ELSE [ok |-> FALSE, doc |-> d]

RECURSIVE applyForwardAllReversed(_, _)
applyForwardAllReversed(d, entry) ==
    IF entry = <<>> THEN [ok |-> TRUE, doc |-> d]
    ELSE LET r == applyForward(d, entry[Len(entry)])
         IN  IF r.ok
             THEN applyForwardAllReversed(r.doc, SubSeq(entry, 1, Len(entry) - 1))
             ELSE [ok |-> FALSE, doc |-> d]

RECURSIVE applyForwardAll(_, _)
\* the records of a history entry applied again, first record first
applyForwardAll(d, entry) ==
    IF entry = <<>> THEN [ok |-> TRUE, doc |-> d]
    ELSE LET r == applyForward(d, Head(entry))
         IN  IF r.ok THEN applyForwardAll(r.doc, Tail(entry))
             ELSE [ok |-> FALSE, doc |-> d]

(***************************************************************************)
(* The emitter (eventemitter3, Infographic.tsx line 42).  The Editor is    *)
(* constructed with it, so the internal selection:change and the public    *)
(* selectionChange travel on the same emitter                              *)
(***************************************************************************)
Range(q) == {q[i] : i \in 1..Len(q)}

\* the events of the selection and their public names
SelectionEvents == {"selection:change", "selectionChange"}

\* the internal events the bridge re-exposes
BridgedEvents ==
    {"options:change", "selection:change", "history:change",
     "selection:geometrychange"}

Events == SelectionEvents \cup BridgedEvents \cup {"historyChange", "destroyed"}

NoListeners == [ev \in Events |-> <<>>]

\* the listener the bridge registers for ev at render r
BridgeListener(ev, r) == [kind |-> "bridge", ev |-> ev, n |-> r]

\* the k-th listener a user registers through Infographic.on
UserListener(ev, k) == [kind |-> "user", ev |-> ev, n |-> k]

\* the callback option the bridge calls after the public event pub
Callback(pub) == [kind |-> "callback", ev |-> pub, n |-> 0]

\* the position of the first listener that throws, 0 when none does;
\* throws[i] tells whether the i-th listener throws when called
FirstThrow(throws) ==
    IF \E i \in 1..Len(throws) : throws[i]
    THEN CHOOSE i \in 1..Len(throws) :
            throws[i] /\ \A j \in 1..(i - 1) : ~throws[j]
    ELSE 0

\* emitter.emit(event, payload): the listeners ls are called in registration
\* order, on the caller's stack; the first exception ends the loop and
\* reaches the caller
EmitRun(ls, throws) ==
    LET f == FirstThrow(throws)
    IN  [invoked |-> IF f = 0 THEN ls ELSE SubSeq(ls, 1, f),
         threw |-> f # 0]

(***************************************************************************)
(* SelectionManager (spec.md 4.4)                                          *)
(***************************************************************************)
SelElements == {"A", "B", "C"}

\* the selections of at most n elements of els: ordered, no element twice
Selections(els, n) ==
    {q \in UNION {[1..k -> els] : k \in 0..n} :
        \A i, j \in 1..Len(q) : i # j => q[i] # q[j]}

Member(q, e) == \E i \in 1..Len(q) : q[i] = e

\* SelectionDelta: set difference by reference identity
SelectionDelta(previous, next) ==
    [previous |-> previous,
     next |-> next,
     added |-> SelectSeq(next, LAMBDA e : ~Member(previous, e)),
     removed |-> SelectSeq(previous, LAMBDA e : ~Member(next, e))]

HasDeltaWhenReordered(delta) == delta.previous # delta.next

\* selection:change is published only for a non-empty delta
HasDelta(delta) == delta.added # <<>> \/ delta.removed # <<>>

(***************************************************************************)
(* Infographic: render and the public event bridge                         *)
(***************************************************************************)
NoEmit == [published |-> FALSE]

IgOptionSets == [editable : BOOLEAN, onSelectionChange : BOOLEAN]

\* new Infographic(options): nothing rendered, no editor made or destroyed
LifeStart(editable) ==
    [initial |-> editable, complete |-> TRUE, calls |-> 0, latest |-> "new",
     destroys |-> <<>>, stacks |-> <<>>, callbacks |-> {},
     node |-> 0, rendered |-> FALSE, waits |-> {}, loaded |-> <<>>]

IgInit ==
    /\ igOptions \in IgOptionSets
    /\ editor = 0
    /\ renders = 0
    /\ subs = NoListeners
    /\ selection = <<>>
    /\ lastEmit = NoEmit
    /\ life = LifeStart(igOptions.editable)

\* the part of the Infographic the command manager's runs leave alone
IgIdle ==
    /\ igOptions = [editable |-> FALSE, onSelectionChange |-> FALSE]
    /\ editor = 0
    /\ renders = 0
    /\ subs = NoListeners
    /\ selection = <<>>
    /\ lastEmit = NoEmit
    /\ life = LifeStart(FALSE)

\* setupEditorEventBridge: one more listener on each internal event
setupEditorEventBridge(ls, r) ==
    [ev \in DOMAIN ls |->
        IF ev \in BridgedEvents
        THEN Append(ls[ev], BridgeListener(ev, r))
        ELSE ls[ev]]

\* the sizes of the undo and redo stacks of a new CommandManager
NoHistory == [undo |-> 0, redo |-> 0]

\* this.editor?.destroy(): one more destroy() call on editor ed, if any; its
\* stacks are cleared
EditorDestroyed(l, ed) ==
    IF ed = 0
    THEN l
    ELSE [l EXCEPT !.destroys[ed] = @ + 1, !.stacks[ed] = NoHistory]

\* performRender with this.options.editable = editable and the record l of
\* the calls so far: incomplete parsed options end it with an error event;
\* otherwise the previous editor is destroyed, and with editable set a new
\* Editor (with a new, empty selection) is made on the same emitter and the
\* bridge is set up
\* the r-th render: its node is the current one, rendered is set and
\* 'rendered' emitted, and waitForSvgLoads(node) is pending
NodeRendered(l, r) ==
    [l EXCEPT !.node = r, !.rendered = TRUE, !.waits = @ \cup {r},
              !.loaded = (r :> 0) @@ @]

performRender(editable, l) ==
    IF ~l.complete
    THEN /\ life' = l
         /\ lastEmit' = NoEmit
         /\ UNCHANGED <<editor, renders, subs, selection>>
    ELSE /\ renders' = renders + 1
         /\ IF editable
            THEN /\ editor' = renders + 1
                 /\ subs' = setupEditorEventBridge(subs, renders + 1)
                 /\ life' = [NodeRendered(EditorDestroyed(l, editor),
                                          renders + 1) EXCEPT
                                !.destroys = (renders + 1 :> 0) @@ @,
                                !.stacks = (renders + 1 :> NoHistory) @@ @]
            ELSE /\ editor' = 0
                 /\ life' = NodeRendered(EditorDestroyed(l, editor),
                                         renders + 1)
                 /\ UNCHANGED subs
         /\ selection' = <<>>
         /\ lastEmit' = NoEmit

\* render() with the options given at construction
Render ==
    /\ renders < MaxRenders
    /\ performRender(igOptions.editable, life)
    /\ UNCHANGED igOptions

UserCount == Cardinality({l \in UNION {Range(subs[ev]) : ev \in Events} :
                             l.kind = "user"})

\* Infographic.on(event, listener), with a listener not registered before
On(ev) ==
    /\ UserCount < MaxUser
    /\ subs' = [subs EXCEPT ![ev] = Append(@, UserListener(ev, UserCount + 1))]
    /\ UNCHANGED <<igOptions, editor, renders, selection, lastEmit, life>>

NoThrow == [kind |-> "none", ev |-> "", n |-> 0]

\* the functions that may throw in an emission: the users' listeners and the
\* callback option.  The first exception ends the emission, so one emission
\* has at most one function that throws (NoThrow: none does)
ThrowSources ==
    {l \in UNION {Range(subs[ev]) : ev \in Events} : l.kind = "user"}
        \cup {Callback("selectionChange"), NoThrow}

\* the bridge's listener for selection:change: it emits the public
\* selectionChange and then calls options.onSelectionChange when provided
BridgeRun(thrower) ==
    LET ls == subs["selectionChange"]
        pub == EmitRun(ls, [i \in 1..Len(ls) |-> ls[i] = thrower])
        called == ~pub.threw /\ igOptions.onSelectionChange
    IN  [public |-> pub,
         callback |-> called,
         threw |-> pub.threw
                     \/ (called /\ Callback("selectionChange") = thrower)]

\* does listener l of the internal event throw in this emission
ListenerThrows(l, thrower) ==
    IF l.kind = "bridge" THEN BridgeRun(thrower).threw ELSE l = thrower

\* setSelection(elements): the selection is replaced, and the delta against
\* the previous one is published when it is not empty
SetSelection(next, thrower) ==
    /\ editor # 0
    /\ selection' = next
    /\ LET delta == SelectionDelta(selection, next)
           ls == subs["selection:change"]
           run == EmitRun(ls, [i \in 1..Len(ls) |->
                                    ListenerThrows(ls[i], thrower)])
       IN  lastEmit' =
             IF HasDelta(delta)
             THEN [published |-> TRUE,
                   payload |-> delta,
                   listeners |-> ls,
                   invoked |-> run.invoked,
                   threw |-> run.threw]
             ELSE [published |-> FALSE, payload |-> delta]
    /\ UNCHANGED <<igOptions, editor, renders, subs, life>>

SelNext ==
    \/ Render
    \/ \E ev \in SelectionEvents : On(ev)
    \/ \E next \in Selections(SelElements, MaxSel), thrower \in ThrowSources :
          SetSelection(next, thrower)

CmdIdle ==
    /\ doc = [q \in Paths |-> Absent]
    /\ undoStack = <<>>
    /\ redoStack = <<>>
    /\ issued = 0
    /\ pending = <<>>
    /\ inflight = {}
    /\ started = [count |-> 0, id |-> 0]
    /\ last = [id |-> 0]
    /\ scen = [stage |-> "exec", n |-> 0, k |-> 0, doc |-> doc]

(***************************************************************************)
(* EditBar: selection type and item resolution                             *)
(***************************************************************************)
Null == "null"

\* the elements, each with the structural capabilities the probes
\* isEditableText / isIconElement / isGeometryElement find on it
Elements == {"T1", "T2", "I1", "G1", "TI", "TG", "IG", "TIG", "N1"}

ElementCaps(e) ==
    CASE e \in {"T1", "T2"} -> {"text"}
      [] e = "I1" -> {"icon"}
      [] e = "G1" -> {"geometry"}
      [] e = "TI" -> {"text", "icon"}
      [] e = "TG" -> {"text", "geometry"}
      [] e = "IG" -> {"icon", "geometry"}
      [] e = "TIG" -> {"text", "icon", "geometry"}
      [] OTHER -> {}

isEditableText(e) == "text" \in ElementCaps(e)

isIconElement(e) == "icon" \in ElementCaps(e)

isGeometryElement(e) == "geometry" \in ElementCaps(e)

SelectionTypes == {"text", "icon", "geometry", "mixed"}

\* getSelectionType: each element sets the flag of the first probe it passes
getSelectionType(sel) ==
    LET hasText == \E i \in 1..Len(sel) : isEditableText(sel[i])
        hasIcon == \E i \in 1..Len(sel) :
                      ~isEditableText(sel[i]) /\ isIconElement(sel[i])
        hasGeometry == \E i \in 1..Len(sel) :
                          /\ ~isEditableText(sel[i])
                          /\ ~isIconElement(sel[i])
                          /\ isGeometryElement(sel[i])
    IN  CASE hasText /\ ~hasIcon /\ ~hasGeometry -> "text"
          [] ~hasText /\ hasIcon /\ ~hasGeometry -> "icon"
          [] ~hasText /\ ~hasIcon /\ hasGeometry -> "geometry"
          [] OTHER -> "mixed"

(***************************************************************************)
(* EditBar: the attributes of a selection                                  *)
(***************************************************************************)
AttrKeys == {"fill", "font-size"}

NoValue == "undefined"

ValuesOf(k) == IF k = "font-size" THEN {"14", "16"} ELSE {"#000", "#fff"}

\* the attribute records an element may carry: each key has a value or none
AttrMaps ==
    {m \in [AttrKeys -> {NoValue} \cup UNION {ValuesOf(k) : k \in AttrKeys}] :
        \A k \in AttrKeys : m[k] \in {NoValue} \cup ValuesOf(k)}

EmptyAttrs == [k \in AttrKeys |-> NoValue]

NoAttrs == [e \in Elements |-> EmptyAttrs]

\* getTextElementProps(text).attributes || {}
getTextElementAttrs(e) == attrs[e]

\* getIconAttrs(icon)
getIconAttrs(e) == attrs[e]

\* getCommonAttrs: the keys on which every record has one and the same value
getCommonAttrs(list) ==
    [k \in AttrKeys |->
        IF \A i \in 1..Len(list) : list[i][k] = list[1][k]
        THEN list[1][k] ELSE NoValue]

getSelectionAttributesOfFirst(sel) ==
    IF Len(sel) = 0 \/ getSelectionType(sel) \notin {"text", "icon"}
    THEN EmptyAttrs
    ELSE attrs[sel[1]]

\* getSelectionAttributes
getSelectionAttributes(sel) ==
    IF Len(sel) = 0 THEN EmptyAttrs
    ELSE LET selectionType == getSelectionType(sel)
         IN  CASE selectionType = "text" ->
                    IF Len(sel) = 1 THEN getTextElementAttrs(sel[1])
                    ELSE getCommonAttrs([i \in 1..Len(sel) |->
                                            getTextElementAttrs(sel[i])])
               [] selectionType = "icon" ->
                    IF Len(sel) = 1 THEN getIconAttrs(sel[1])
                    ELSE getCommonAttrs([i \in 1..Len(sel) |->
                                            getIconAttrs(sel[i])])
               [] OTHER -> EmptyAttrs

NoContext == [selection |-> <<>>, attributes |-> EmptyAttrs, type |-> "none"]

\* buildContext, with the type the selection is classified as
buildContext(sel) ==
    [selection |-> sel,
     attributes |-> getSelectionAttributes(sel),
     type |-> getSelectionType(sel)]

\* getElementCollectionEditItems
getElementCollectionEditItems(sel) ==
    IF Len(sel) <= 1 THEN <<>> ELSE <<"ElementAlign">>

TextItems == <<"FontColor", "FontSize", "FontAlign", "FontFamily">>

\* getDefaultItems: the built-in items of a selection type, for one element
\* and for several
getDefaultItems(sel, type) ==
    CASE type = "text" ->
            IF Len(sel) = 1 THEN TextItems
            ELSE TextItems \o getElementCollectionEditItems(sel)
      [] type = "icon" -> <<"IconColor">>
      [] type = "geometry" ->
            IF Len(sel) = 1 THEN <<>> ELSE getElementCollectionEditItems(sel)
      [] OTHER -> getElementCollectionEditItems(sel)

\* the item factories a configuration may name: fnull returns null, fsolo
\* returns an element for a single-element selection only, the others
\* always return an element
TypeFactory(type) == "f" \o type

Factories == {"fa", "fb", "fnull", "fsolo"} \cup {TypeFactory(t) : t \in SelectionTypes}

\* a CustomEditItem called with the context of selection sel
FactoryResult(f, sel) ==
    CASE f = "fnull" -> Null
      [] f = "fsolo" -> IF Len(sel) = 1 THEN f ELSE Null
      [] OTHER -> f

\* renderCustomItems: the factories' results, nulls dropped
renderCustomItems(factories, sel) ==
    SelectSeq([i \in 1..Len(factories) |-> FactoryResult(factories[i], sel)],
              LAMBDA item : item # Null)

getEditItemsTypeFirst(sel, opts) ==
    LET type == getSelectionType(sel)
    IN  renderCustomItems(opts.items.prepend, sel)
            \o renderCustomItems(opts.items[type], sel)
            \o (IF opts.includeDefaults # "false"
                THEN getDefaultItems(sel, type) ELSE <<>>)
            \o renderCustomItems(opts.items.append, sel)

\* the factories getEditItems calls, in the order of the calls
getEditItemsCalls(sel, opts) ==
    LET selectionType == getSelectionType(sel)
    IN  opts.items.prepend
            \o (IF opts.includeDefaults # "false"
                THEN getDefaultItems(sel, selectionType) ELSE <<>>)
            \o opts.items[selectionType]
            \o opts.items.append

\* getEditItems: prepend, defaults (includeDefaults = true when unset),
\* the items of the selection's type, append; an unset list adds nothing
getEditItems(sel, opts) ==
    LET selectionType == getSelectionType(sel)
        includeDefaults ==
            IF opts.includeDefaults = "unset" THEN TRUE
            ELSE opts.includeDefaults = "true"
        items0 == <<>>
        items1 == items0 \o renderCustomItems(opts.items.prepend, sel)
        items2 == IF includeDefaults
                  THEN items1 \o getDefaultItems(sel, selectionType)
                  ELSE items1
        items3 == items2 \o renderCustomItems(opts.items[selectionType], sel)
        items4 == items3 \o renderCustomItems(opts.items.append, sel)
    IN  SelectSeq(items4, LAMBDA item : item # Null)

(***************************************************************************)
(* EditBar: placement.  Lengths are in half pixels, so that the halves of  *)
(* widths the code takes stay integers                                     *)
(***************************************************************************)
Px(n) == 2 * n

offset == 8

Min2(a, b) == IF a <= b THEN a ELSE b

Max2(a, b) == IF a >= b THEN a ELSE b

MinOf(S) == CHOOSE m \in S : \A n \in S : m <= n

MaxOf(S) == CHOOSE m \in S : \A n \in S : m >= n

Rect(x, y, w, h) == [x |-> Px(x), y |-> Px(y), width |-> Px(w), height |-> Px(h)]

\* getCombinedBounds: the union bounding box of the rects
getCombinedBounds(rects) ==
    LET I == 1..Len(rects)
        left == MinOf({rects[i].x : i \in I})
        top == MinOf({rects[i].y : i \in I})
        right == MaxOf({rects[i].x + rects[i].width : i \in I})
        bottom == MaxOf({rects[i].y + rects[i].height : i \in I})
    IN  [x |-> left, y |-> top, width |-> right - left, height |-> bottom - top]

\* selection.map((element) => element.getBoundingClientRect())
RectsOf(sel, b) == [i \in 1..Len(sel) |-> b[sel[i]]]

clamp(value, min, max) == Min2(Max2(value, min), max)

shouldPlaceAboveStrict(spaceAbove, spaceBelow, height) ==
    spaceAbove > height \/ spaceAbove > spaceBelow

\* lines 397-398
shouldPlaceAbove(spaceAbove, spaceBelow, height) ==
    spaceAbove >= height \/ spaceAbove >= spaceBelow

ExtentUnguarded(space, size) == space - size

\* Math.max(space - size, 0): how far the container can go in its host
Extent(space, size) == Max2(space - size, 0)

NoPosition == [left |-> 0, top |-> 0]

\* placeEditBar for a non-empty selection whose elements have the rects b,
\* in the surroundings v
placeEditBar(sel, b, v) ==
    LET combinedBounds == getCombinedBounds(RectsOf(sel, b))
        anchorTop == [x |-> combinedBounds.x + combinedBounds.width \div 2,
                      y |-> combinedBounds.y]
        anchorBottom == [x |-> anchorTop.x,
                         y |-> combinedBounds.y + combinedBounds.height]
        spaceAbove == anchorTop.y - Px(offset)
        spaceBelow == v.viewportHeight - anchorBottom.y - Px(offset)
        above == shouldPlaceAbove(spaceAbove, spaceBelow, v.barHeight)
    IN  IF v.host = "viewport"
        THEN [left |-> clamp(v.scrollX + anchorTop.x - v.barWidth \div 2,
                             v.scrollX,
                             v.scrollX + Extent(v.viewportWidth, v.barWidth)),
              top |-> clamp(IF above
                            THEN v.scrollY + anchorTop.y - v.barHeight
                                    - Px(offset)
                            ELSE v.scrollY + anchorBottom.y + Px(offset),
                            v.scrollY,
                            v.scrollY + Extent(v.viewportHeight, v.barHeight))]
        ELSE [left |-> clamp(anchorTop.x - v.parent.x - v.barWidth \div 2,
                             0, Extent(v.parent.width, v.barWidth)),
              top |-> clamp(IF above
                            THEN anchorTop.y - v.parent.y - v.barHeight
                                    - Px(offset)
                            ELSE anchorBottom.y - v.parent.y + Px(offset),
                            0, Extent(v.parent.height, v.barHeight))]

\* the rects an element may have
PlaceRects ==
    {Rect(x, y, w, h) : x \in {0, 100, 180}, y \in {-10, 0, 38, 50, 170},
                        w \in {40, 41}, h \in {20, 100}}

\* the surroundings of the container: the document's viewport with a scroll
\* offset, or a positioned ancestor
Views ==
    {[viewportWidth |-> Px(200), viewportHeight |-> Px(vh),
      barWidth |-> Px(tw), barHeight |-> Px(th),
      host |-> "viewport", scrollX |-> Px(sx), scrollY |-> Px(sy),
      parent |-> Rect(0, 0, 0, 0)] :
        vh \in {100, 200}, tw \in {60, 250}, th \in {30, 250},
        sx \in {0, 30}, sy \in {0, 30}}
    \cup
    {[viewportWidth |-> Px(200), viewportHeight |-> Px(vh),
      barWidth |-> Px(tw), barHeight |-> Px(th),
      host |-> "parent", scrollX |-> 0, scrollY |-> 0,
      parent |-> Rect(px, py, ps[1], ps[2])] :
        vh \in {100, 200}, tw \in {60, 250}, th \in {30, 250},
        px \in {0, 40}, py \in {0, 40}, ps \in {<<150, 150>>, <<50, 20>>}}

\* where the elements are while nothing moves them
HomeBounds ==
    [e \in Elements |->
        CASE e = "T1" -> Rect(100, 50, 40, 20)
          [] e = "I1" -> Rect(20, 120, 41, 20)
          [] OTHER -> Rect(150, 10, 40, 100)]

HomeView ==
    [viewportWidth |-> Px(200), viewportHeight |-> Px(200),
     barWidth |-> Px(60), barHeight |-> Px(30),
     host |-> "viewport", scrollX |-> 0, scrollY |-> 0,
     parent |-> Rect(0, 0, 0, 0)]

(***************************************************************************)
(* EditBar: options                                                        *)
(***************************************************************************)
\* options.filter: unset, or a predicate on the selection
Filters == {"none", "solo", "multi"}

FilterResult(f, sel) ==
    CASE f = "solo" -> Len(sel) = 1
      [] f = "multi" -> Len(sel) # 1
      [] OTHER -> TRUE

\* options.render: unset, or a renderer returning an element or null
Renderers == {"none", "always", "solo"}

RenderResult(r, sel) ==
    CASE r = "always" -> "custom"
      [] r = "solo" -> IF Len(sel) = 1 THEN "custom" ELSE Null
      [] OTHER -> Null

NoItems ==
    [prepend |-> <<>>, append |-> <<>>, text |-> <<>>, icon |-> <<>>,
     geometry |-> <<>>, mixed |-> <<>>]

\* the lists a prepend or append entry is drawn from
FactoryLists == {<<>>, <<"fa", "fnull", "fb">>, <<"fsolo">>}

\* options.items for the item resolution: each selection type has no list or
\* a list of its own factory
ItemConfigs ==
    {[prepend |-> p, append |-> a, text |-> t, icon |-> i, geometry |-> g,
      mixed |-> m] :
        p \in FactoryLists, a \in FactoryLists,
        t \in {<<>>, <<TypeFactory("text")>>},
        i \in {<<>>, <<TypeFactory("icon")>>},
        g \in {<<>>, <<TypeFactory("geometry")>>},
        m \in {<<>>, <<TypeFactory("mixed")>>}}

ItemOptionSets ==
    [filter : {"none"}, render : {"none"}, items : ItemConfigs,
     includeDefaults : {"unset", "true", "false"}]

\* the options the event handlers run under: without a renderer, with and
\* without a prepend factory and the defaults; with a renderer, with a
\* prepend factory and the defaults it must bypass
BarOptionSets ==
    [filter : Filters, render : {"none"},
     items : {NoItems, [NoItems EXCEPT !.prepend = <<"fsolo">>]},
     includeDefaults : {"unset", "false"}]
    \cup
    [filter : Filters, render : Renderers \ {"none"},
     items : {[NoItems EXCEPT !.prepend = <<"fsolo">>]},
     includeDefaults : {"unset"}]

(***************************************************************************)
(* EditBar: the event handlers                                             *)
(***************************************************************************)
BarElements == {"T1", "I1", "G1"}

NoContent == [items |-> <<>>, builtFor |-> <<>>]

Visible == container /\ visibility = "visible"

PlainOptions ==
    [filter |-> "none", render |-> "none", items |-> NoItems,
     includeDefaults |-> "unset"]

\* the elements at home, without attributes, in the plain viewport
HomeScene == attrs = NoAttrs /\ bounds = HomeBounds /\ view = HomeView

\* init(): the events the three handlers are registered for
InitEvents == {"selection:change", "selection:geometrychange", "history:change"}

\* a bar that has handled no event
BarRest ==
    /\ listening = InitEvents
    /\ destroyed = FALSE
    /\ inDocument = container
    /\ created = IF container THEN 1 ELSE 0
    /\ visibility = "hidden"
    /\ content = NoContent
    /\ placed = <<>>
    /\ invoked = <<>>
    /\ context = NoContext
    /\ position = NoPosition
    /\ lastEvent = "init"
    /\ steps = <<>>
    /\ mounted = {}

BarStart ==
    /\ container = FALSE
    /\ barSelection = <<>>
    /\ HomeScene
    /\ BarRest

BarInit == barOptions \in BarOptionSets /\ BarStart

\* the edit bar where it plays no part
BarIdle == barOptions = PlainOptions /\ BarStart

FilterIgnored(next) == FALSE

\* line 68: a filter is provided and rejects the selection
FilterRejects(next) ==
    barOptions.filter # "none" /\ ~FilterResult(barOptions.filter, next)

HasRendererAndNoItems == barOptions.render # "none" /\ barOptions.items = NoItems

\* line 81: a custom renderer is provided
HasRenderer == barOptions.render # "none"

\* createReactEditBar: the element a React renderer returns owns a mounted
\* root and carries its cleanup function
IsReactRendered(item) == item = "custom"

\* cleanupReactEditBar(element) on the mounted roots m: the stored cleanup
\* function is called and deleted when the element has one
cleanupReactEditBar(m, element) ==
    [mounted |-> m \ {element},
     unmounts |-> IF element \in m THEN 1 ELSE 0]

\* the elements of items that own a mounted root
ReactRoots(items) ==
    {items[i] : i \in {j \in 1..Len(items) : IsReactRendered(items[j])}}

HideSkipped ==
    /\ steps' = <<>>
    /\ UNCHANGED <<container, visibility, content, placed, position, mounted,
                   inDocument, created>>

\* hideContainer, when the container exists
HideIfContainer ==
    /\ visibility' = IF container THEN "hidden" ELSE visibility
    /\ steps' = IF container THEN <<"hide">> ELSE <<>>
    /\ UNCHANGED <<container, content, placed, position, mounted, inDocument,
                   created>>

createEditBar ==
    /\ container' = TRUE
    /\ inDocument' = TRUE
    /\ created' = created + 1

\* getOrCreateEditBar: the container, created and appended to its parent
\* when there is none yet
getOrCreateEditBar ==
    /\ container' = TRUE
    /\ inDocument' = IF container THEN inDocument ELSE TRUE
    /\ created' = IF container THEN created ELSE created + 1

\* setContainerItems + placeEditBar + showContainer on the container that
\* getOrCreateEditBar returned
ShowItems(items, next) ==
    /\ getOrCreateEditBar
    /\ content' = [items |-> items, builtFor |-> next]
    /\ placed' = next
    /\ position' = placeEditBar(next, bounds', view)
    /\ visibility' = "visible"
    /\ steps' = <<"cleanup", "attach", "place", "show">>
    /\ mounted' = ReactRoots(items)

\* handleSelectionChanged({ next })
handleSelectionChanged(next) ==
    /\ barSelection' = next
    /\ lastEvent' = "selection:change"
    /\ IF FilterRejects(next)
       THEN HideIfContainer /\ invoked' = <<>>
       ELSE IF Len(next) = 0
       THEN HideIfContainer /\ invoked' = <<>>
       ELSE IF HasRenderer
       THEN LET customContent == RenderResult(barOptions.render, next)
            IN  /\ invoked' = <<"render">>
                /\ IF customContent = Null
                   THEN HideIfContainer
                   ELSE ShowItems(<<customContent>>, next)
       ELSE LET items == getEditItems(next, barOptions)
            IN  /\ invoked' = getEditItemsCalls(next, barOptions)
                /\ IF Len(items) = 0
                   THEN /\ getOrCreateEditBar
                        /\ visibility' = "hidden"
                        /\ steps' = <<"hide">>
                        /\ UNCHANGED <<content, placed, position, mounted>>
                   ELSE ShowItems(items, next)
    /\ UNCHANGED <<barOptions, attrs, context, view, listening, destroyed>>

TargetIsFirstSelected(target) ==
    Len(barSelection) > 0 /\ barSelection[1] = target

\* this.selection.indexOf(target) !== -1
TargetIsSelected(target) == Member(barSelection, target)

\* handleGeometryChanged({ target })
handleGeometryChanged(target) ==
    /\ lastEvent' = "selection:geometrychange"
    /\ invoked' = <<>>
    /\ IF ~TargetIsSelected(target) \/ ~container
       THEN steps' = <<>> /\ UNCHANGED <<visibility, placed, position>>
       ELSE /\ placed' = barSelection
            /\ position' = placeEditBar(barSelection, bounds', view)
            /\ visibility' = "visible"
            /\ steps' = <<"place", "show">>
    /\ UNCHANGED <<barOptions, container, barSelection, content, attrs, context,
                   view, mounted, lifeVars>>

\* handleHistoryChanged()
handleHistoryChanged ==
    /\ lastEvent' = "history:change"
    /\ invoked' = <<>>
    /\ IF ~container \/ Len(barSelection) = 0
       THEN steps' = <<>> /\ UNCHANGED <<visibility, placed, position>>
       ELSE /\ placed' = barSelection
            /\ position' = placeEditBar(barSelection, bounds', view)
            /\ visibility' = "visible"
            /\ steps' = <<"place", "show">>
    /\ UNCHANGED <<barOptions, container, barSelection, content, attrs, context,
                   view, mounted, lifeVars>>

DestroyEventsButHistory == {"selection:change", "selection:geometrychange"}

\* the events destroy() takes the handlers off
DestroyEvents ==
    {"selection:change", "selection:geometrychange", "history:change"}

\* destroy(), called once
EditBarDestroy ==
    /\ ~destroyed
    /\ destroyed' = TRUE
    /\ listening' = listening \ DestroyEvents
    /\ inDocument' = FALSE
    /\ UNCHANGED created
    /\ lastEvent' = "destroy"
    /\ invoked' = <<>>
    /\ steps' = IF container THEN <<"remove">> ELSE <<>>
    /\ UNCHANGED <<barOptions, container, visibility, barSelection, content,
                   placed, attrs, context, bounds, view, position, mounted>>

\* an event for which the bar has no listener
Undelivered ==
    /\ lastEvent' = "undelivered"
    /\ invoked' = <<>>
    /\ steps' = <<>>
    /\ UNCHANGED <<barOptions, container, visibility, barSelection, content,
                   placed, attrs, context, view, position, mounted, lifeVars>>

\* emitter.emit(event, ...): the handler runs when it is registered
Deliver(event, handler) == IF event \in listening THEN handler ELSE Undelivered

\* where an element may be moved to
MovedRects(e) ==
    {HomeBounds[e]} \cup
        (IF e = "T1" THEN {Rect(100, 150, 40, 20)} ELSE {})

\* a move or resize has given element e the rect r
Moved(e, r) == bounds' = [bounds EXCEPT ![e] = r]

\* the events the emitter delivers to the edit bar: a selection:change for a
\* selection that differs from the previous one as a set, the geometry
\* change of an element that was moved or resized, the history change of
\* a command that may have moved an element
BarNext ==
    \/ \E next \in Selections(BarElements, MaxSel) :
          /\ Range(next) # Range(barSelection)
          /\ UNCHANGED bounds
          /\ Deliver("selection:change", handleSelectionChanged(next))
    \/ \E target \in BarElements : \E r \in MovedRects(target) :
          /\ Moved(target, r)
          /\ Deliver("selection:geometrychange", handleGeometryChanged(target))
    \/ \E e \in BarElements : \E r \in MovedRects(e) :
          Moved(e, r) /\ Deliver("history:change", handleHistoryChanged)
    \/ EditBarDestroy

SelectionInit == IgInit /\ CmdIdle /\ BarIdle

SpecSelection ==
    SelectionInit /\ [][SelNext /\ UNCHANGED <<cmdVars, barVars>>]_vars

Init == BarInit /\ CmdIdle /\ IgIdle

Spec == Init /\ [][BarNext /\ UNCHANGED <<cmdVars, igVars>>]_vars

(***************************************************************************)
(* Infographic: render(), update() and destroy() in any order              *)
(***************************************************************************)
\* the editable key of the options passed to render() or update()
GivenEditable == {"unset", "true", "false"}

\* setOptions(options, mode): 'replace' merges the options into the initial
\* ones, 'merge' into the current ones
setOptions(given, mode) ==
    IF given = "unset"
    THEN (IF mode = "replace" THEN life.initial ELSE igOptions.editable)
    ELSE given = "true"

\* one more call of the public method name
LifeCall(l, name) == [l EXCEPT !.calls = @ + 1, !.latest = name]

\* render(options): the options replace the current ones; complete tells
\* whether the parsed result is complete
IgRenderWith(given, complete) ==
    /\ life.calls < MaxLifeCalls
    /\ LET editable == setOptions(given, "replace")
       IN  /\ igOptions' = [igOptions EXCEPT !.editable = editable]
           /\ performRender(editable,
                  [LifeCall(life, "render") EXCEPT !.complete = complete])

\* render()
IgRender ==
    /\ life.calls < MaxLifeCalls
    /\ performRender(igOptions.editable, LifeCall(life, "render"))
    /\ UNCHANGED igOptions

\* update(options)
IgUpdate(given, complete) ==
    /\ life.calls < MaxLifeCalls
    /\ LET editable == setOptions(given, "merge")
       IN  /\ igOptions' = [igOptions EXCEPT !.editable = editable]
           /\ performRender(editable,
                  [LifeCall(life, "update") EXCEPT !.complete = complete])

\* the listeners of 'destroyed' that may throw, and none
DestroyThrowers ==
    {l \in Range(subs["destroyed"]) : l.kind = "user"} \cup {NoThrow}

\* this.emitter.removeAllListeners(), reached when the emission of
\* 'destroyed' before it did not throw
RemoveUnlessThrown(run) == IF run.threw THEN subs ELSE NoListeners

\* destroy(): this.editor?.destroy(), the node removed and set to null,
\* rendered cleared, 'destroyed' emitted and then all listeners removed;
\* this.editor keeps its value
IgDestroy(thrower) ==
    /\ life.calls < MaxLifeCalls
    /\ life' = [LifeCall(EditorDestroyed(life, editor), "destroy") EXCEPT
                   !.node = 0, !.rendered = FALSE]
    /\ LET ls == subs["destroyed"]
           run == EmitRun(ls, [i \in 1..Len(ls) |-> ls[i] = thrower])
       IN  /\ subs' = RemoveUnlessThrown(run)
           /\ lastEmit' = [published |-> TRUE,
                           event |-> "destroyed",
                           listeners |-> ls,
                           invoked |-> run.invoked,
                           threw |-> run.threw]
    /\ UNCHANGED <<igOptions, editor, renders, selection>>

HistoryActions == {"execute", "undo", "redo"}

\* can a CommandManager with stacks s publish history:change{action}
CanApply(s, action) ==
    CASE action = "execute" -> s.undo < MaxHistory
      [] action = "undo" -> s.undo > 0
      [] action = "redo" -> s.redo > 0

\* the stacks after the operation that publishes history:change{action}
Applied(s, action) ==
    CASE action = "execute" -> [undo |-> s.undo + 1, redo |-> 0]
      [] action = "undo" -> [undo |-> s.undo - 1, redo |-> s.redo + 1]
      [] action = "redo" -> [undo |-> s.undo + 1, redo |-> s.redo - 1]

\* IEditor.canUndo(), canRedo() and getHistorySize() of an editor whose
\* CommandManager has stacks s
EditorCanUndo(s) == s.undo > 0

EditorCanRedo(s) == s.redo > 0

EditorHistorySize(s) == s.undo

BridgeEditorAtSetup(listener) == listener.n

\* this.editor, read by the bridge's listener when it is called
BridgeEditor(listener) == editor

\* the public event a bridge listener emits for history:change{action},
\* ed being the editor it reads and stacks the editors' stacks
PublicHistoryEvent(action, ed, stacks) ==
    [action |-> action,
     canUndo |-> IF ed = 0 THEN FALSE ELSE EditorCanUndo(stacks[ed]),
     canRedo |-> IF ed = 0 THEN FALSE ELSE EditorCanRedo(stacks[ed]),
     historySize |-> IF ed = 0 THEN 0 ELSE EditorHistorySize(stacks[ed])]

\* the callback option the bridge calls for an internal event
CallbackName(ev) ==
    CASE ev = "options:change" -> "onChange"
      [] ev = "selection:change" -> "onSelectionChange"
      [] ev = "history:change" -> "onHistoryChange"
      [] ev = "selection:geometrychange" -> "onGeometryChange"

\* is the callback option for ev provided in this.options
CallbackProvided(ev) ==
    IF ev = "selection:change"
    THEN igOptions.onSelectionChange
    ELSE CallbackName(ev) \in life.callbacks

\* the bridge's listeners among the listeners of ev
BridgesOf(ev) == SelectSeq(subs[ev], LAMBDA l : l.kind = "bridge")

\* what an emission of ev did: each bridge listener emits its public event
\* and then calls the callback option when it is provided
Emission(ev, payload, src, publics) ==
    [published |-> TRUE,
     event |-> ev,
     payload |-> payload,
     source |-> src,
     listeners |-> subs[ev],
     public |-> publics,
     callbacks |-> IF CallbackProvided(ev) THEN Len(publics) ELSE 0]

\* the CommandManager of editor src settles an operation and publishes
\* history:change{action} on the emitter; src is the current editor, or an
\* earlier one whose operation was in flight when it was replaced
HistoryChange(src, action) ==
    /\ CanApply(life.stacks[src], action)
    /\ life' = [life EXCEPT !.stacks[src] = Applied(@, action)]
    /\ LET ls == BridgesOf("history:change")
       IN  lastEmit' =
             Emission("history:change", [action |-> action], src,
                      [i \in 1..Len(ls) |->
                          PublicHistoryEvent(action, BridgeEditor(ls[i]),
                                             life'.stacks)])
    /\ UNCHANGED <<igOptions, editor, renders, subs, selection>>

\* the payloads of selection:change and selection:geometrychange
SelectionPayloads ==
    {[next |-> <<"A">>, added |-> <<"A">>, removed |-> <<>>],
     [next |-> <<>>, added |-> <<>>, removed |-> <<"A">>]}

GeometryPayloads == {[target |-> "A"]}

\* the change records of an options:change
ChangeRecords ==
    {[op |-> "update", path |-> "data.title", value |-> "v1"],
     [op |-> "add", path |-> "data.items[0]", value |-> "v2"]}

\* the payloads of options:change: no record, one, or two in either order
ChangePayloads ==
    {[changes |-> cs] : cs \in Selections(ChangeRecords, 2)}

PayloadsOf(ev) ==
    CASE ev = "selection:change" -> SelectionPayloads
      [] ev = "selection:geometrychange" -> GeometryPayloads
      [] ev = "options:change" -> ChangePayloads

PublicChangeOfLast(payload) ==
    IF Len(payload.changes) = 0
    THEN <<>>
    ELSE
    <<[operation |-> payload.changes[Len(payload.changes)].op,
       path |-> payload.changes[Len(payload.changes)].path,
       value |-> payload.changes[Len(payload.changes)].value,
       options |-> igOptions]>>

\* the bridge's listener for options:change: nothing without a first change
\* record, else the public change event with the current options
PublicChange(payload) ==
    IF Len(payload.changes) = 0
    THEN <<>>
    ELSE <<[operation |-> payload.changes[1].op,
            path |-> payload.changes[1].path,
            value |-> payload.changes[1].value,
            options |-> igOptions]>>

\* what one bridge listener emits for ev: at most one public event
PublicOf(ev, payload) ==
    CASE ev = "selection:change" ->
            <<[selection |-> payload.next, added |-> payload.added,
               removed |-> payload.removed]>>
      [] ev = "selection:geometrychange" ->
            <<[target |-> payload.target, changeType |-> "move"]>>
      [] ev = "options:change" -> PublicChange(payload)

RECURSIVE Repeat(_, _)
\* n copies of the sequence s, one after the other
Repeat(s, n) == IF n = 0 THEN <<>> ELSE s \o Repeat(s, n - 1)

\* the current editor's StateManager, SelectionManager or interaction
\* publishes ev on the emitter
EditorEmit(ev, payload) ==
    /\ editor # 0
    /\ lastEmit' = Emission(ev, payload, editor,
                            Repeat(PublicOf(ev, payload), Len(BridgesOf(ev))))
    /\ UNCHANGED <<igOptions, editor, renders, subs, selection, life>>

LifeNext ==
    \/ \E src \in DOMAIN life.stacks, action \in HistoryActions :
          HistoryChange(src, action)
    \/ \E given \in GivenEditable, complete \in BOOLEAN :
          IgRenderWith(given, complete)
    \/ IgRender
    \/ \E given \in GivenEditable, complete \in BOOLEAN :
          IgUpdate(given, complete)
    \/ \E thrower \in DestroyThrowers : IgDestroy(thrower)

LifecycleInit == IgInit /\ CmdIdle /\ BarIdle

SpecLifecycle ==
    LifecycleInit /\ [][LifeNext /\ UNCHANGED <<cmdVars, barVars>>]_vars

(***************************************************************************)
(* Infographic: the bridge from the internal events to the public ones     *)
(***************************************************************************)
\* the callback options besides onSelectionChange: none or all provided
CallbackSets == {{}, {"onChange", "onHistoryChange", "onGeometryChange"}}

BridgeInit ==
    /\ igOptions \in IgOptionSets
    /\ editor = 0
    /\ renders = 0
    /\ subs = NoListeners
    /\ selection = <<>>
    /\ lastEmit = NoEmit
    /\ life \in {[LifeStart(igOptions.editable) EXCEPT !.callbacks = cb] :
                    cb \in CallbackSets}
    /\ CmdIdle
    /\ BarIdle

BridgeNext ==
    \/ \E given \in GivenEditable, complete \in BOOLEAN :
          IgRenderWith(given, complete)
    \/ IgRender
    \/ \E given \in GivenEditable, complete \in BOOLEAN :
          IgUpdate(given, complete)
    \/ \E thrower \in DestroyThrowers : IgDestroy(thrower)
    \/ \E action \in HistoryActions :
          editor # 0 /\ HistoryChange(editor, action)
    \/ \E ev \in BridgedEvents \ {"history:change"} :
          \E payload \in PayloadsOf(ev) : EditorEmit(ev, payload)

SpecBridge == BridgeInit /\ [][BridgeNext /\ UNCHANGED <<cmdVars, barVars>>]_vars

(***************************************************************************)
(* Infographic: the resource waits of the renders and the 'loaded' event   *)
(***************************************************************************)
StillCurrentAlways(r) == TRUE

\* this.node === currentNode, for the node of the r-th render
StillCurrent(r) == life.node = r

\* waitForSvgLoads of the r-th render's node resolves: 'loaded' is emitted
\* when that node is still the current one
ResolveWait(r) ==
    /\ r \in life.waits
    /\ life' = [life EXCEPT
                   !.waits = @ \ {r},
                   !.loaded[r] = IF StillCurrent(r) THEN @ + 1 ELSE @]
    /\ lastEmit' = NoEmit
    /\ UNCHANGED <<igOptions, editor, renders, subs, selection>>

LoadNext ==
    \/ \E given \in GivenEditable, complete \in BOOLEAN :
          IgRenderWith(given, complete)
    \/ IgRender
    \/ \E given \in GivenEditable, complete \in BOOLEAN :
          IgUpdate(given, complete)
    \/ \E thrower \in DestroyThrowers : IgDestroy(thrower)
    \/ \E r \in life.waits : ResolveWait(r)
    \/ On("destroyed")

LoadInit == IgInit /\ CmdIdle /\ BarIdle

SpecLoad == LoadInit /\ [][LoadNext /\ UNCHANGED <<cmdVars, barVars>>]_vars

(***************************************************************************)
(* getEditItems on its own: any configuration, any selection               *)
(***************************************************************************)
ItemsStart ==
    /\ barOptions \in ItemOptionSets
    /\ barSelection \in Selections(Elements, MaxSel)
    /\ container = FALSE
    /\ HomeScene
    /\ BarRest

ResolveItems ==
    /\ lastEvent = "init"
    /\ lastEvent' = "getEditItems"
    /\ invoked' = getEditItemsCalls(barSelection, barOptions)
    /\ content' = [items |-> getEditItems(barSelection, barOptions),
                   builtFor |-> barSelection]
    /\ UNCHANGED <<barOptions, container, visibility, barSelection, placed,
                   attrs, context, bounds, view, position, logVars, lifeVars>>

ItemsInit == ItemsStart /\ CmdIdle /\ IgIdle

SpecItems == ItemsInit /\ [][ResolveItems /\ UNCHANGED <<cmdVars, igVars>>]_vars

(***************************************************************************)
(* buildContext on its own: any selection, any attributes of its elements  *)
(***************************************************************************)
\* the attribute assignments in which the elements of sel carry any record
AttrsOf(sel) ==
    {[e \in Elements |-> IF e \in Range(sel) THEN g[e] ELSE EmptyAttrs] :
        g \in [Range(sel) -> AttrMaps]}

ContextStart ==
    /\ barOptions = PlainOptions
    /\ barSelection \in Selections(Elements, MaxSel)
    /\ attrs \in AttrsOf(barSelection)
    /\ bounds = HomeBounds
    /\ view = HomeView
    /\ container = FALSE
    /\ BarRest

BuildContext ==
    /\ lastEvent = "init"
    /\ lastEvent' = "buildContext"
    /\ context' = buildContext(barSelection)
    /\ UNCHANGED <<barOptions, container, visibility, barSelection, content,
                   placed, invoked, attrs, bounds, view, position, logVars,
                   lifeVars>>

ContextInit == ContextStart /\ CmdIdle /\ IgIdle

SpecContext ==
    ContextInit /\ [][BuildContext /\ UNCHANGED <<cmdVars, igVars>>]_vars

(***************************************************************************)
(* placeEditBar on its own: any rects of the selection, any surroundings   *)
(***************************************************************************)
PlaceStart ==
    /\ barOptions = PlainOptions
    /\ barSelection \in {<<"T1">>, <<"T1", "I1">>}
    /\ bounds \in {[HomeBounds EXCEPT !["T1"] = r] : r \in PlaceRects}
    /\ view \in Views
    /\ attrs = NoAttrs
    /\ container = TRUE
    /\ BarRest

PlaceBar ==
    /\ lastEvent = "init"
    /\ lastEvent' = "placeEditBar"
    /\ position' = placeEditBar(barSelection, bounds, view)
    /\ placed' = barSelection
    /\ UNCHANGED <<barOptions, container, visibility, barSelection, content,
                   invoked, attrs, context, bounds, view, logVars, lifeVars>>

PlaceInit == PlaceStart /\ CmdIdle /\ IgIdle

SpecPlace == PlaceInit /\ [][PlaceBar /\ UNCHANGED <<cmdVars, igVars>>]_vars

(***************************************************************************)
(* CommandManager (spec.md 4.3, 5)                                         *)
(***************************************************************************)
NoCall == [id |-> 0]

canUndo == Len(undoStack) > 0

canRedo == Len(redoStack) > 0

getHistorySizeAll == Len(undoStack) + Len(redoStack)

getHistorySize == Len(undoStack)

\* what a listener reads from the manager while an event is delivered
Observed(d, undo, redo) == [doc |-> d, undo |-> undo, redo |-> redo]

CanStartAlways == TRUE

\* the manager starts the next queued call only when nothing is in flight
CanStart == inflight = {}

\* queued calls leave the queue in arrival order
NextQueued == Head(pending)

RestQueued(c) == SelectSeq(pending, LAMBDA x : x.id # c.id)

CommitKeepRedo(undo, redo, entry) ==
    [undo |-> Append(undo, entry), redo |-> redo]

\* a committed batch is pushed to the undo stack and clears the redo stack
Commit(undo, redo, entry) ==
    [undo |-> Append(undo, entry), redo |-> <<>>]

RollbackOldestFirst(applied) == 1

\* a batch's rollback undoes the command applied last, first
RollbackIndex(applied) == Len(applied)

PublishedAlways(action) == <<action>>

\* a failed operation publishes nothing
PublishedOnReject(action) == <<>>

\* a successful operation publishes one history:change with its action
PublishedOnSuccess(action) == <<action>>

\* history:change is published after the state mutation and the stack update
ObservedAtPublish(d, undo, redo) == Observed(d, undo, redo)

InitialDocs ==
    {[q \in Paths |-> Absent], [q \in Paths |-> IF q = "a" THEN 1 ELSE Absent]}

\* a freshly constructed manager has empty stacks
FreshStack == <<>>

CmdInit ==
    /\ doc \in InitialDocs
    /\ undoStack = FreshStack
    /\ redoStack = FreshStack
    /\ issued = 0
    /\ pending = <<>>
    /\ inflight = {}
    /\ started = [count |-> 0, id |-> 0]
    /\ last = NoCall
    /\ scen = [stage |-> "exec", n |-> 0, k |-> 0, doc |-> doc]

\* the record of a settled call
Outcome(op, status, events, seen, noop) ==
    [id |-> op.id, kind |-> op.kind, status |-> status, events |-> events,
     pre |-> op.pre, seen |-> seen, noop |-> noop, failedAt |-> op.failedAt]

\* execute(command), executeBatch(commands), undo(), redo(): the call is
\* queued; a command's change is determined when it is applied
Call(kind, n) ==
    /\ Len(pending) < MaxPending
    /\ issued' = issued + 1
    /\ pending' = Append(pending, [id |-> issued + 1, kind |-> kind, n |-> n])
    /\ UNCHANGED <<doc, undoStack, redoStack, inflight, started, last>>

\* the head of the queue starts.  undo()/redo() on an empty stack is a no-op
\* that settles at once; otherwise undo()/redo() pops its entry here
Start ==
    /\ pending # <<>>
    /\ CanStart
    /\ LET c == NextQueued
           pre == Observed(doc, undoStack, redoStack)
           op == [id |-> c.id, kind |-> c.kind, n |-> c.n, applied |-> <<>>,
                  phase |-> "apply", entry |-> <<>>, pre |-> pre,
                  failedAt |-> 0]
       IN  /\ pending' = RestQueued(c)
           /\ started' = [count |-> started.count + 1, id |-> c.id]
           /\ CASE c.kind = "undo" /\ undoStack = <<>> ->
                     /\ last' = Outcome(op, "resolved", <<>>, pre, TRUE)
                     /\ UNCHANGED <<undoStack, redoStack, inflight>>
                [] c.kind = "redo" /\ redoStack = <<>> ->
                     /\ last' = Outcome(op, "resolved", <<>>, pre, TRUE)
                     /\ UNCHANGED <<undoStack, redoStack, inflight>>
                [] c.kind = "undo" /\ undoStack # <<>> ->
                     /\ inflight' = inflight \cup
                            {[op EXCEPT !.entry = undoStack[Len(undoStack)]]}
                     /\ undoStack' = SubSeq(undoStack, 1, Len(undoStack) - 1)
                     /\ last' = NoCall
                     /\ UNCHANGED redoStack
                [] c.kind = "redo" /\ redoStack # <<>> ->
                     /\ inflight' = inflight \cup
                            {[op EXCEPT !.entry = redoStack[Len(redoStack)]]}
                     /\ redoStack' = SubSeq(redoStack, 1, Len(redoStack) - 1)
                     /\ last' = NoCall
                     /\ UNCHANGED undoStack
                [] OTHER ->
                     /\ inflight' = inflight \cup {op}
                     /\ last' = NoCall
                     /\ UNCHANGED <<undoStack, redoStack>>
    /\ UNCHANGED <<doc, issued, scen>>

\* the next command of the running execute/executeBatch is applied; a failure
\* turns the operation to rolling back
Apply(op, req) ==
    /\ op.kind \in {"execute", "executeBatch"}
    /\ op.phase = "apply"
    /\ Len(op.applied) < op.n
    /\ LET r == applyChange(doc, req)
       IN  /\ doc' = r.doc
           /\ inflight' = (inflight \ {op}) \cup
                {IF r.ok THEN [op EXCEPT !.applied = Append(op.applied, r.rec)]
                 ELSE [op EXCEPT !.phase = "rollback",
                                 !.failedAt = Len(op.applied) + 1]}
    /\ UNCHANGED <<undoStack, redoStack, issued, pending, started, last, scen>>

\* a failed batch undoes the commands it applied, one inverse at a time
Rollback(op) ==
    /\ op.kind \in {"execute", "executeBatch"}
    /\ op.phase = "rollback"
    /\ op.applied # <<>>
    /\ LET i == RollbackIndex(op.applied)
           r == applyInverse(doc, op.applied[i])
       IN  /\ doc' = r.doc
           /\ inflight' = (inflight \ {op}) \cup
                {[op EXCEPT !.applied =
                     SubSeq(op.applied, 1, i - 1) \o
                     SubSeq(op.applied, i + 1, Len(op.applied))]}
    /\ UNCHANGED <<undoStack, redoStack, issued, pending, started, last, scen>>

\* the rolled-back batch settles: the promise rejects, nothing is pushed
Reject(op) ==
    /\ op.kind \in {"execute", "executeBatch"}
    /\ op.phase = "rollback"
    /\ op.applied = <<>>
    /\ inflight' = inflight \ {op}
    /\ last' = Outcome(op, "rejected", PublishedOnReject("execute"),
                       Observed(doc, undoStack, redoStack), FALSE)
    /\ UNCHANGED <<doc, undoStack, redoStack, issued, pending, started, scen>>

\* every command applied: the batch becomes one history entry
Finish(op) ==
    /\ op.kind \in {"execute", "executeBatch"}
    /\ op.phase = "apply"
    /\ Len(op.applied) = op.n
    /\ LET h == Commit(undoStack, redoStack, op.applied)
       IN  /\ undoStack' = h.undo
           /\ redoStack' = h.redo
           /\ last' = Outcome(op, "resolved", PublishedOnSuccess("execute"),
                              ObservedAtPublish(doc, h.undo, h.redo), FALSE)
    /\ inflight' = inflight \ {op}
    /\ UNCHANGED <<doc, issued, pending, started, scen>>

\* the popped entry's aggregated inverse is applied and the entry moves to
\* the redo stack; a failure puts the entry back and rejects
Undo(op) ==
    /\ op.kind = "undo"
    /\ LET r == applyInverseAll(doc, op.entry)
           redo == Append(redoStack, op.entry)
           undo == Append(undoStack, op.entry)
       IN  IF r.ok
           THEN /\ doc' = r.doc
                /\ redoStack' = redo
                /\ last' = Outcome(op, "resolved", PublishedOnSuccess("undo"),
                                   ObservedAtPublish(r.doc, undoStack, redo), FALSE)
                /\ UNCHANGED undoStack
           ELSE /\ undoStack' = undo
                /\ last' = Outcome(op, "rejected", PublishedOnReject("undo"),
                                   Observed(doc, undo, redoStack), FALSE)
                /\ UNCHANGED <<doc, redoStack>>
    /\ inflight' = inflight \ {op}
    /\ UNCHANGED <<issued, pending, started, scen>>

\* the popped entry's records are applied again and the entry moves back to
\* the undo stack; a failure puts the entry back and rejects
Redo(op) ==
    /\ op.kind = "redo"
    /\ LET r == applyForwardAll(doc, op.entry)
           undo == Append(undoStack, op.entry)
           redo == Append(redoStack, op.entry)
       IN  IF r.ok
           THEN /\ doc' = r.doc
                /\ undoStack' = undo
                /\ last' = Outcome(op, "resolved", PublishedOnSuccess("redo"),
                                   ObservedAtPublish(r.doc, undo, redoStack), FALSE)
                /\ UNCHANGED redoStack
           ELSE /\ redoStack' = redo
                /\ last' = Outcome(op, "rejected", PublishedOnReject("redo"),
                                   Observed(doc, undoStack, redo), FALSE)
                /\ UNCHANGED <<doc, undoStack>>
    /\ inflight' = inflight \ {op}
    /\ UNCHANGED <<issued, pending, started, scen>>

\* the requests on top-level paths
RootRequests == {r \in Requests : Parent(r.path) = Root}

\* adds anywhere, updates of leaves, removals of whole top-level subtrees
TreeRequests ==
    {r \in Requests : \/ r.op = "add"
                      \/ r.op = "update" /\ Parent(r.path) # Root
                      \/ r.op = "remove" /\ Parent(r.path) = Root}

\* the steps the manager takes on its own, its commands drawn from reqs
Step(reqs) ==
    \/ Start
    \/ \E op \in inflight, req \in reqs : Apply(op, req)
    \/ \E op \in inflight : Rollback(op)
    \/ \E op \in inflight : Reject(op)
    \/ \E op \in inflight : Finish(op)
    \/ \E op \in inflight : Undo(op)
    \/ \E op \in inflight : Redo(op)

\* any caller, any call, at any time
CallAny ==
    /\ issued < MaxCalls
    /\ \/ \E kind \in {"execute", "undo", "redo"} : Call(kind, 1)
       \/ \E n \in 1..MaxBatch : Call("executeBatch", n)
    /\ UNCHANGED scen

CmdNext ==
    \/ CallAny
    \/ Step(RootRequests)

CommandInit == CmdInit /\ IgIdle /\ BarIdle

SpecCommand == CommandInit /\ [][CmdNext /\ UNCHANGED <<igVars, barVars>>]_vars

(***************************************************************************)
(* A caller that executes up to MaxRound batches, then calls undo() once   *)
(* per batch on the undo stack, then redo() as many times.                 *)
(***************************************************************************)
Idle == inflight = {} /\ pending = <<>>

RoundExecute ==
    /\ scen.stage = "exec"
    /\ scen.k < MaxRound
    /\ \/ Call("execute", 1)
       \/ \E n \in 1..MaxBatch : Call("executeBatch", n)
    /\ scen' = [scen EXCEPT !.k = scen.k + 1]

\* the batches have settled: n of them are on the undo stack
RoundTurn ==
    /\ scen.stage = "exec"
    /\ Idle
    /\ scen' = [stage |-> "undo", n |-> Len(undoStack), k |-> 0, doc |-> doc]
    /\ UNCHANGED <<doc, undoStack, redoStack, issued, pending, inflight,
                   started, last>>

RoundUndo ==
    /\ scen.stage = "undo"
    /\ scen.k < scen.n
    /\ Call("undo", 1)
    /\ scen' = [scen EXCEPT !.k = scen.k + 1]

RoundUndone ==
    /\ scen.stage = "undo"
    /\ scen.k = scen.n
    /\ scen' = [scen EXCEPT !.stage = "redo", !.k = 0]
    /\ UNCHANGED <<doc, undoStack, redoStack, issued, pending, inflight,
                   started, last>>

RoundRedo ==
    /\ scen.stage = "redo"
    /\ scen.k < scen.n
    /\ Call("redo", 1)
    /\ scen' = [scen EXCEPT !.k = scen.k + 1]

RoundNext ==
    \/ RoundExecute
    \/ RoundTurn
    \/ RoundUndo
    \/ RoundUndone
    \/ RoundRedo
    \/ Step(TreeRequests)

SpecRoundTrip ==
    CommandInit /\ [][RoundNext /\ UNCHANGED <<igVars, barVars>>]_vars

(***************************************************************************)
(* Properties of the command manager                                       *)
(***************************************************************************)
ExecKinds == {"execute", "executeBatch"}

ActionOf(kind) == IF kind \in ExecKinds THEN "execute" ELSE kind

\* C1: after n successfully executed batches, n undo() calls and then n
\* redo() calls, once all of them have settled, the document is the one that
\* was there right after the n batches.
C1_UndoRedoRoundTrip ==
    (scen.stage = "redo" /\ scen.k = scen.n /\ Idle) => doc = scen.doc

\* two batches, one of them of several commands, undone and redone
C1_Witness ==
    /\ scen.stage = "redo" /\ scen.k = scen.n /\ Idle
    /\ scen.n >= 2
    /\ Len(undoStack) = scen.n
    /\ \E i \in 1..Len(undoStack) : Len(undoStack[i]) >= 2
    /\ doc \notin InitialDocs

\* C2: when a command of an execute/executeBatch call fails, then once the
\* call has settled the document, the undo stack, the redo stack and
\* historySize are what they were when the call started, and the promise is
\* rejected (nothing was pushed to history).
C2_FailedBatchRestores ==
    \A op \in inflight \cup {last} :
        (op.id # 0 /\ op.kind \in ExecKinds /\ op.failedAt > 0) =>
            /\ op \in inflight => op.phase = "rollback"
            /\ op = last =>
                /\ last.status = "rejected"
                /\ doc = last.pre.doc
                /\ undoStack = last.pre.undo
                /\ redoStack = last.pre.redo
                /\ getHistorySize = Len(last.pre.undo)

\* a batch that failed at its third command, on a non-empty document
C2_Witness ==
    /\ last.id # 0 /\ last.kind = "executeBatch" /\ last.status = "rejected"
    /\ last.failedAt >= 3
    /\ last.pre.doc # [q \in Paths |-> Absent]

C4_ExecuteClearsRedo ==
    (last.id # 0 /\ last.kind \in ExecKinds) =>
        IF last.status = "resolved"
        THEN redoStack = <<>> /\ ~canRedo
        ELSE redoStack = last.pre.redo

\* an execute that succeeded while the redo stack held an entry
C4_Witness ==
    /\ last.id # 0 /\ last.kind \in ExecKinds /\ last.status = "resolved"
    /\ last.pre.redo # <<>>

\* C5: at most one operation is in flight; calls start in the order they were
\* issued, each only after every earlier call has settled, so a queued call
\* has not started while another is half-applied.
C5_OneInFlight ==
    /\ Cardinality(inflight) <= 1
    /\ started.id = started.count
    /\ \A op \in inflight : op.id = started.id
    /\ \A i \in 1..Len(pending) : pending[i].id = started.count + i

\* two calls queued behind a batch that has applied one of its commands
C5_Witness ==
    /\ Len(pending) = 2
    /\ \E op \in inflight : op.n >= 2 /\ Len(op.applied) = 1 /\ op.phase = "apply"

\* C6: a call that succeeded and was not a no-op published exactly one
\* history:change, with action execute / undo / redo, and published it when
\* the document and the stacks had their final value; a failed call and an
\* undo/redo on an empty stack published nothing.
C6_OneEventOnSuccess ==
    last.id # 0 =>
        /\ last.events =
              IF last.status = "resolved" /\ ~last.noop
              THEN <<ActionOf(last.kind)>> ELSE <<>>
        /\ last.events # <<>> =>
              last.seen = Observed(doc, undoStack, redoStack)

\* a redo that succeeded and published
C6_Witness ==
    /\ last.id # 0 /\ last.kind = "redo" /\ last.status = "resolved"
    /\ last.events = <<"redo">>

(***************************************************************************)
(* Properties of the selection manager and the emitter                     *)
(***************************************************************************)
\* C7: setSelection(next) publishes selection:change exactly when the delta
\* against the previous selection is not empty, where added is what next has
\* and previous has not, and removed is what previous has and next has not;
\* added and removed share no element, and selecting the same set again
\* publishes nothing.
C7_PublishIffDelta ==
    "payload" \in DOMAIN lastEmit =>
        LET p == lastEmit.payload
        IN  /\ p.next = selection
            /\ Range(p.added) = Range(p.next) \ Range(p.previous)
            /\ Range(p.removed) = Range(p.previous) \ Range(p.next)
            /\ Range(p.added) \cap Range(p.removed) = {}
            /\ lastEmit.published <=> (p.added # <<>> \/ p.removed # <<>>)
            /\ Range(p.previous) = Range(p.next) => ~lastEmit.published

\* setSelection([A, B]) and then setSelection([B, C])
C7_Witness ==
    /\ "payload" \in DOMAIN lastEmit
    /\ lastEmit.published
    /\ lastEmit.payload.previous = <<"A", "B">>
    /\ lastEmit.payload.next = <<"B", "C">>
    /\ lastEmit.payload.added = <<"C">>
    /\ lastEmit.payload.removed = <<"A">>

\* C8: when a listener fails during emit(event, payload), the listeners
\* registered after it for the same event are still called in that emission,
\* and the failure does not reach the caller of emit.
C8_ListenerFailureIsolated ==
    lastEmit.published =>
        /\ lastEmit.invoked = lastEmit.listeners
        /\ ~lastEmit.threw

(***************************************************************************)
(* Properties of the edit bar                                              *)
(***************************************************************************)
\* C9: after the edit bar has handled a selection:change with next selection
\* S, it is visible exactly when S is not empty, the filter (when one is
\* configured) accepts S, and the custom renderer (when one is configured)
\* returns content or, without a renderer, getEditItems returns an item;
\* otherwise it is hidden.
C9_VisibleIffContent ==
    lastEvent = "selection:change" =>
        (Visible <=>
            /\ barSelection # <<>>
            /\ barOptions.filter # "none" =>
                   FilterResult(barOptions.filter, barSelection)
            /\ IF barOptions.render # "none"
               THEN RenderResult(barOptions.render, barSelection) # Null
               ELSE getEditItems(barSelection, barOptions) # <<>>)

\* a bar with a filter and no renderer that was shown for one selection and
\* is hidden by the selection:change that followed
C9_Witness ==
    /\ lastEvent = "selection:change"
    /\ barOptions.filter # "none"
    /\ barOptions.render = "none"
    /\ barSelection # <<>>
    /\ content.items # <<>>
    /\ container
    /\ ~Visible

\* C10: without a custom renderer the items of a selection are the non-null
\* results of the prepend factories, then the default items of the
\* selection's type unless includeDefaults is false, then the non-null
\* results of the factories of that type, then the non-null results of the
\* append factories, each stage in its own order.
C10_ItemOrder ==
    lastEvent = "getEditItems" =>
        LET S == barSelection
            type == getSelectionType(S)
            Results(list) == [i \in 1..Len(list) |-> FactoryResult(list[i], S)]
            NonNull(q) == SelectSeq(q, LAMBDA x : x # Null)
        IN  content.items =
                NonNull(Results(barOptions.items.prepend))
                    \o (IF barOptions.includeDefaults = "false"
                        THEN <<>> ELSE getDefaultItems(S, type))
                    \o NonNull(Results(barOptions.items[type]))
                    \o NonNull(Results(barOptions.items.append))

\* one text element, includeDefaults unset, every stage contributes and a
\* null of the prepend list is dropped
C10_Witness ==
    /\ lastEvent = "getEditItems"
    /\ barOptions.includeDefaults = "unset"
    /\ barOptions.items.prepend = <<"fa", "fnull", "fb">>
    /\ content.items =
          <<"fa", "fb">> \o TextItems \o <<TypeFactory("text"), "fsolo">>

\* C11: with a custom renderer configured, handling a selection:change calls
\* no prepend, default, type-specific or append factory, whatever the
\* selection; the bar, when visible, holds exactly the one element the
\* renderer returned for that selection, and it is hidden when the renderer
\* returned null.
C11_RendererBypassesItems ==
    (lastEvent = "selection:change" /\ barOptions.render # "none") =>
        /\ \A i \in 1..Len(invoked) : invoked[i] = "render"
        /\ Visible =>
              content = [items |-> <<RenderResult(barOptions.render,
                                                  barSelection)>>,
                         builtFor |-> barSelection]
        /\ RenderResult(barOptions.render, barSelection) = Null => ~Visible

\* a renderer and a prepend factory are configured; the renderer alone was
\* called and its element is the content
C11_Witness ==
    /\ lastEvent = "selection:change"
    /\ barOptions.render # "none"
    /\ barOptions.items.prepend # <<>>
    /\ barOptions.includeDefaults = "unset"
    /\ Visible
    /\ invoked = <<"render">>
    /\ content.items = <<"custom">>

\* C12: a selection is classified as text, icon or geometry exactly when
\* that is the only capability any of its elements has, each element having
\* any subset of the three capabilities, and as mixed otherwise.
C12_TypeIsOnlyCapability ==
    lastEvent = "buildContext" =>
        LET caps == UNION {ElementCaps(e) : e \in Range(barSelection)}
        IN  context.type =
                IF Cardinality(caps) = 1
                THEN CHOOSE t \in caps : TRUE
                ELSE "mixed"

\* C13: the attributes in the context of a selection of several elements
\* classified as text, icon or geometry hold a key only when every selected
\* element has one and the same value for it, and then with that value; for
\* text elements a value they all share is included.
C13_MergedAttributes ==
    (/\ lastEvent = "buildContext"
     /\ Len(barSelection) >= 2
     /\ context.type \in {"text", "icon", "geometry"}) =>
        \A k \in AttrKeys :
            LET shared == \A e \in Range(barSelection) :
                             attrs[e][k] = attrs[barSelection[1]][k]
            IN  /\ context.attributes[k] # NoValue =>
                      /\ shared
                      /\ context.attributes[k] = attrs[barSelection[1]][k]
                /\ (context.type = "text" /\ shared) =>
                      context.attributes[k] = attrs[barSelection[1]][k]

\* two text elements with font sizes 14 and 16 and the same fill
C13_Witness ==
    /\ lastEvent = "buildContext"
    /\ barSelection = <<"T1", "T2">>
    /\ attrs["T1"]["font-size"] = "14"
    /\ attrs["T2"]["font-size"] = "16"
    /\ attrs["T1"]["fill"] = "#000"
    /\ context.attributes = [k \in AttrKeys |->
                                IF k = "fill" THEN "#000" ELSE NoValue]

\* C14: with margin 8, spaceAbove = B.top - 8 and spaceBelow =
\* viewportHeight - B.bottom - 8 for the union bounding box B, the bar is
\* placed above the selection (at B.top - T.height - 8) exactly when
\* spaceAbove >= T.height or spaceAbove >= spaceBelow, and below (at
\* B.bottom + 8) otherwise, the result kept inside the host.
C14_AboveOrBelow ==
    lastEvent = "placeEditBar" =>
        LET B == getCombinedBounds(RectsOf(barSelection, bounds))
            spaceAbove == B.y - Px(8)
            spaceBelow == view.viewportHeight - (B.y + B.height) - Px(8)
            above == spaceAbove >= view.barHeight \/ spaceAbove >= spaceBelow
            wanted == IF above THEN B.y - view.barHeight - Px(8)
                      ELSE B.y + B.height + Px(8)
            origin == IF view.host = "viewport" THEN view.scrollY
                      ELSE 0 - view.parent.y
            low == IF view.host = "viewport" THEN view.scrollY ELSE 0
            room == IF view.host = "viewport"
                    THEN view.viewportHeight - view.barHeight
                    ELSE view.parent.height - view.barHeight
            high == low + (IF room > 0 THEN room ELSE 0)
            top == origin + wanted
        IN  position.top = IF top < low THEN low
                           ELSE IF top > high THEN high ELSE top

\* B = {x: 100, y: 50, width: 40, height: 20}, T = 60 x 30 in a viewport 200
\* high that is not scrolled: above, at top 12
C14_Witness ==
    /\ lastEvent = "placeEditBar"
    /\ barSelection = <<"T1">>
    /\ bounds["T1"] = Rect(100, 50, 40, 20)
    /\ view.host = "viewport" /\ view.scrollX = 0 /\ view.scrollY = 0
    /\ view.viewportHeight = Px(200)
    /\ view.barWidth = Px(60) /\ view.barHeight = Px(30)
    /\ position.top = Px(12)
    /\ position.left = Px(90)

\* C15: left and top lie inside the host: in [scrollX, scrollX +
\* max(viewportWidth - T.width, 0)] and [scrollY, scrollY +
\* max(viewportHeight - T.height, 0)] when the viewport hosts the bar, in
\* [0, max(parent.width - T.width, 0)] and [0, max(parent.height - T.height,
\* 0)] when a positioned ancestor does; a value already inside is kept.
C15_InsideHost ==
    lastEvent = "placeEditBar" =>
        LET B == getCombinedBounds(RectsOf(barSelection, bounds))
            inViewport == view.host = "viewport"
            lowX == IF inViewport THEN view.scrollX ELSE 0
            lowY == IF inViewport THEN view.scrollY ELSE 0
            roomX == IF inViewport THEN view.viewportWidth - view.barWidth
                     ELSE view.parent.width - view.barWidth
            roomY == IF inViewport THEN view.viewportHeight - view.barHeight
                     ELSE view.parent.height - view.barHeight
            highX == lowX + (IF roomX > 0 THEN roomX ELSE 0)
            highY == lowY + (IF roomY > 0 THEN roomY ELSE 0)
            rawX == (IF inViewport THEN view.scrollX ELSE 0 - view.parent.x)
                       + B.x + B.width \div 2 - view.barWidth \div 2
            above == \/ B.y - Px(8) >= view.barHeight
                     \/ B.y - Px(8) >=
                           view.viewportHeight - (B.y + B.height) - Px(8)
            rawY == (IF inViewport THEN view.scrollY ELSE 0 - view.parent.y)
                       + (IF above THEN B.y - view.barHeight - Px(8)
                          ELSE B.y + B.height + Px(8))
        IN  /\ lowX <= position.left /\ position.left <= highX
            /\ lowY <= position.top /\ position.top <= highY
            /\ (lowX <= rawX /\ rawX <= highX) => position.left = rawX
            /\ (lowY <= rawY /\ rawY <= highY) => position.top = rawY

\* a bar wider and higher than the positioned ancestor that hosts it
C15_Witness ==
    /\ lastEvent = "placeEditBar"
    /\ view.host = "parent"
    /\ view.barWidth > view.parent.width
    /\ view.barHeight > view.parent.height
    /\ Len(barSelection) = 2
    /\ position = [left |-> 0, top |-> 0]

\* C16 as claimed: every selection:change, selection:geometrychange and
\* history:change that leaves the tracked selection non-empty has the
\* position of the bar recomputed from the current union bounding box of the
\* selection.
C16_RecomputedWhenSelected ==
    (/\ lastEvent \in {"selection:change", "selection:geometrychange",
                       "history:change"}
     /\ barSelection # <<>>) =>
        /\ container
        /\ position = placeEditBar(barSelection, bounds, view)

\* C16, amended: every selection:change, selection:geometrychange and
\* history:change that leaves the bar visible has the position of the bar
\* computed from the current union bounding box of the tracked selection.
C16_RecomputedWhenVisible ==
    (/\ lastEvent \in {"selection:change", "selection:geometrychange",
                       "history:change"}
     /\ Visible) =>
        /\ barSelection # <<>>
        /\ position = placeEditBar(barSelection, bounds, view)

\* the second of two selected elements has moved and the bar has moved
\* with it
C16_Witness ==
    /\ lastEvent = "selection:geometrychange"
    /\ Visible
    /\ Len(barSelection) = 2
    /\ bounds[barSelection[1]] = HomeBounds[barSelection[1]]
    /\ bounds[barSelection[2]] # HomeBounds[barSelection[2]]
    /\ position = placeEditBar(barSelection, bounds, view)
    /\ position # placeEditBar(barSelection, HomeBounds, view)

\* step a occurs in the log and no step b occurs before it
Precedes(a, b) ==
    \E i \in 1..Len(steps) :
        steps[i] = a /\ \A j \in 1..i : steps[j] # b

\* the selection passed the filter and is not empty, and the renderer
\* returned nothing or no item was resolved for it
NewContentEmpty ==
    /\ ~FilterRejects(barSelection)
    /\ Len(barSelection) > 0
    /\ IF HasRenderer
       THEN RenderResult(barOptions.render, barSelection) = Null
       ELSE Len(getEditItems(barSelection, barOptions)) = 0

\* C17: when a selection change re-renders the bar, the content rendered
\* before is disposed (its mounted roots released) before the new content is
\* attached, and when the new content set is empty the content rendered
\* before is disposed before the bar is hidden.
C17_DisposedBeforeAttachOrHide ==
    lastEvent = "selection:change" =>
        /\ \A i \in 1..Len(steps) :
               steps[i] = "attach" => Precedes("cleanup", "attach")
        /\ (NewContentEmpty /\ content.items # <<>>) =>
               Precedes("cleanup", "hide") /\ mounted = {}

\* the half of C17 the handler keeps: nothing is attached before the content
\* rendered before is disposed, and what stays mounted is what is attached
C17_DisposedBeforeAttach ==
    /\ \A i \in 1..Len(steps) :
           steps[i] = "attach" => Precedes("cleanup", "attach")
    /\ mounted = ReactRoots(content.items)

\* C18: destroy() takes off every listener init() registered and removes the
\* container from the document, and from then on no event on the bus changes
\* the bar's visibility, content or position.
C18_DestroyedBarIsInert ==
    /\ [](destroyed => listening = {} /\ ~inDocument)
    /\ [][destroyed =>
            destroyed' /\ UNCHANGED <<visibility, content, position>>]_vars

\* after destroy() of a bar that was showing content for a selection, an
\* event was emitted on the bus
C18_Witness ==
    /\ destroyed
    /\ lastEvent = "undelivered"
    /\ container
    /\ content.items # <<>>
    /\ Len(barSelection) > 0
    /\ visibility = "visible"

\* the editors made so far
Editors == DOMAIN life.destroys

\* C19: over any sequence of render(), update() and destroy() calls every
\* Editor made is destroyed exactly once: at least once when it has been
\* replaced or the Infographic has been destroyed, and never a second time.
C19_EditorDestroyedOnce ==
    \A ed \in Editors :
        /\ life.destroys[ed] <= 1
        /\ (ed # editor \/ life.latest = "destroy") => life.destroys[ed] >= 1

\* the half of C19 the calls keep: an Editor that has been replaced, or
\* whose Infographic has been destroyed, has been destroyed
C19_EditorDestroyedAtLeastOnce ==
    \A ed \in Editors :
        (ed # editor \/ life.latest = "destroy") => life.destroys[ed] >= 1

\* C20: every public historyChange event carries the action of the
\* history:change event that caused it, and the canUndo, canRedo and
\* historySize of the current editor at the emission: false, false and 0
\* when there is no editor.
C20_HistoryChangeEnriched ==
    (lastEmit.published /\ lastEmit.event = "history:change") =>
        \A i \in 1..Len(lastEmit.public) :
            LET pub == lastEmit.public[i]
            IN  /\ pub.action = lastEmit.payload.action
                /\ IF editor = 0
                   THEN /\ ~pub.canUndo
                        /\ ~pub.canRedo
                        /\ pub.historySize = 0
                   ELSE /\ pub.canUndo = (life.stacks[editor].undo > 0)
                        /\ pub.canRedo = (life.stacks[editor].redo > 0)
                        /\ pub.historySize = life.stacks[editor].undo

\* an operation of an editor that has been replaced settles after the current
\* editor has built up history, and two bridges publish it
C20_Witness ==
    /\ lastEmit.published
    /\ lastEmit.event = "history:change"
    /\ Len(lastEmit.public) = 2
    /\ editor # 0
    /\ lastEmit.source # editor
    /\ life.stacks[editor].undo > 0

\* the bridge publishes a history:change while there is no editor
C20_NoEditorReached ==
    /\ lastEmit.published
    /\ lastEmit.event = "history:change"
    /\ Len(lastEmit.public) > 0
    /\ editor = 0

\* C21: no container exists until a selection:change with a non-empty
\* selection has been handled; a selection:change with an empty selection, a
\* geometry change and a history change never create one, and an EditBar
\* creates at most one container.
C21_ContainerCreatedLazilyOnce ==
    /\ [](created <= 1)
    /\ [](container <=> created = 1)
    /\ [][created' # created =>
            /\ lastEvent' = "selection:change"
            /\ Len(barSelection') > 0]_vars

\* a second non-empty selection is handled by the container the first created
C21_Witness ==
    /\ lastEvent = "selection:change"
    /\ container
    /\ created = 1
    /\ "show" \in Range(steps)
    /\ content.builtFor # <<>>
    /\ content.builtFor = barSelection
    /\ Len(barSelection) = 2

\* C22: under any interleaving of selection:change, geometry change and
\* history change events the bar is not visible while the selection it tracks
\* is empty.
C22_HiddenWhileNothingSelected == Visible => Len(barSelection) > 0

\* a visible bar was hidden by a selection:change with an empty selection,
\* and a history change has been handled since
C22_Witness ==
    /\ lastEvent = "history:change"
    /\ Len(barSelection) = 0
    /\ container
    /\ content.items # <<>>
    /\ ~Visible

\* the selection the bar tracks is not empty, passed the filter and produced
\* content when its selection:change was handled
PassedAndProduced ==
    /\ Len(barSelection) > 0
    /\ ~FilterRejects(barSelection)
    /\ IF HasRenderer
       THEN RenderResult(barOptions.render, barSelection) # Null
       ELSE Len(getEditItems(barSelection, barOptions)) > 0

\* what the renderer or getEditItems gives for the selection the bar tracks
ResolvedContent ==
    IF HasRenderer
    THEN (IF RenderResult(barOptions.render, barSelection) = Null
          THEN <<>>
          ELSE <<RenderResult(barOptions.render, barSelection)>>)
    ELSE getEditItems(barSelection, barOptions)

\* C23: under any interleaving of the three events the bar is visible only
\* if the selection it tracks passed the filter and produced content at its
\* selection change; a geometry or history change never makes a bar visible
\* that was hidden for the current selection.
C23_VisibleOnlyIfPassedAndProduced == Visible => PassedAndProduced

\* C24: whenever the bar is visible its content is the content resolved for
\* the selection it tracks, never content built for an earlier selection.
C24_ContentOfTrackedSelection ==
    Visible =>
        /\ content.items = ResolvedContent
        /\ content.items # <<>> => content.builtFor = barSelection

\* editing is enabled: there is an editor and it has not been destroyed
Editing == editor # 0 /\ life.destroys[editor] = 0

\* the latest emission is one the bridge re-exposes: any of the internal
\* events, an options:change only with a change record
Bridged ==
    /\ lastEmit.published
    /\ lastEmit.event \in BridgedEvents
    /\ lastEmit.event = "options:change" => Len(lastEmit.payload.changes) > 0

\* C25: with editing enabled, after any number of render() and update()
\* calls, each internal selection:change, history:change and
\* selection:geometrychange, and each options:change with a change record,
\* produces exactly one public event and exactly one call of the matching
\* callback option; the bridges of earlier renders add no duplicates.
C25_OnePublicEventPerInternal ==
    (Editing /\ Bridged) =>
        /\ Len(lastEmit.public) = 1
        /\ CallbackProvided(lastEmit.event) => lastEmit.callbacks = 1

\* C28: the public change event emitted for an options:change carries the
\* operation, path and value of the first change record of the payload and
\* the current options; an options:change without change records emits no
\* public change event and does not call onChange.
C28_ChangeCarriesFirstRecord ==
    (lastEmit.published /\ lastEmit.event = "options:change") =>
        LET changes == lastEmit.payload.changes
        IN  IF Len(changes) = 0
            THEN lastEmit.public = <<>> /\ lastEmit.callbacks = 0
            ELSE /\ Editing => Len(lastEmit.public) > 0
                 /\ \A i \in 1..Len(lastEmit.public) :
                        /\ lastEmit.public[i].operation = changes[1].op
                        /\ lastEmit.public[i].path = changes[1].path
                        /\ lastEmit.public[i].value = changes[1].value
                        /\ lastEmit.public[i].options = igOptions

\* an options:change with two change records is re-exposed and onChange is
\* called
C28_Witness ==
    /\ Editing
    /\ lastEmit.published
    /\ lastEmit.event = "options:change"
    /\ Len(lastEmit.payload.changes) = 2
    /\ Len(lastEmit.public) = 1
    /\ lastEmit.callbacks = 1

\* an options:change without change records reaches the bridge
C28_EmptyReached ==
    /\ Editing
    /\ lastEmit.published
    /\ lastEmit.event = "options:change"
    /\ Len(lastEmit.payload.changes) = 0
    /\ Len(lastEmit.listeners) > 0

\* C26: 'loaded' is emitted for a render only when the render's node is
\* still the current node at the time its resource wait completes: a render
\* superseded by a later render or followed by destroy() emits none, in
\* whatever order the waits resolve; a render emits 'loaded' at most once,
\* and only after its 'rendered'.
C26_LoadedOnlyForCurrentNode ==
    /\ [](\A r \in DOMAIN life.loaded :
             /\ life.loaded[r] <= 1
             /\ r <= renders)
    /\ [][\A r \in DOMAIN life.loaded :
             life'.loaded[r] # life.loaded[r] =>
                 /\ life.node = r
                 /\ life'.node = r
                 /\ life.rendered]_vars

\* two waits are pending and the earlier render's resolves after it was
\* superseded: nothing is emitted for it
C26_Witness ==
    /\ renders = 2
    /\ life.node = 2
    /\ 1 \notin life.waits
    /\ 2 \in life.waits
    /\ life.loaded[1] = 0

\* a render's 'loaded' has been emitted
C26_LoadedReached ==
    \E r \in DOMAIN life.loaded : life.loaded[r] = 1

\* a step of destroy()
DestroyStep == life'.calls = life.calls + 1 /\ life'.latest = "destroy"

\* C27: destroy() delivers 'destroyed' to the listeners registered at that
\* time and then removes them, and leaves node null and rendered false, so
\* that no listener registered before destroy() receives an event emitted
\* after it.
C27_DestroyedDeliveredThenRemoved ==
    [][DestroyStep =>
          /\ lastEmit'.event = "destroyed"
          /\ lastEmit'.invoked = subs["destroyed"]
          /\ subs' = NoListeners
          /\ life'.node = 0
          /\ ~life'.rendered]_vars

\* what destroy() keeps of C27: when no listener of 'destroyed' throws, every
\* listener registered at that time receives it and all are removed
C27_WhenNoListenerThrows ==
    [][(DestroyStep /\ ~lastEmit'.threw) =>
          /\ lastEmit'.event = "destroyed"
          /\ lastEmit'.invoked = subs["destroyed"]
          /\ subs' = NoListeners
          /\ life'.node = 0
          /\ ~life'.rendered]_vars

\* C29: every React root mounted by a renderer made with createReactEditBar
\* is unmounted exactly once: it is unmounted by the time its element has
\* been replaced by a re-render or the edit bar has been destroyed, and
\* never a second time, cleanupReactEditBar being a no-op on an element
\* already cleaned or not made by the adapter.
C29_RootsUnmountedOnce ==
    /\ destroyed => mounted = {}
    /\ mounted \subseteq ReactRoots(content.items)
    /\ \A element \in Range(content.items) :
           LET once == cleanupReactEditBar(mounted, element)
           IN  /\ once.unmounts = (IF element \in mounted THEN 1 ELSE 0)
               /\ cleanupReactEditBar(once.mounted, element).unmounts = 0

\* what the handlers keep of C29: the mounted roots are those of the content
\* attached to the container
C29_ReplacedRootsUnmounted == mounted \subseteq ReactRoots(content.items)

====
